---- MODULE Spec2Model ----
(***************************************************************************)
(* The chat relay of backend/app.py: ConnectionManager (connect,           *)
(* disconnect, broadcast), the websocket_chat handler and the POST         *)
(* /messages handler send_message.                                         *)
(*                                                                         *)
(* Every `await` of the source is a point where the asyncio event loop may *)
(* run another task, so each action runs one task from one await to the    *)
(* next.  A send_text is "attempted" when it is called; its outcome is     *)
(* known when the await returns.                                           *)
(***************************************************************************)
EXTENDS Integers, Sequences, FiniteSets, TLC

\* ---- bounds -------------------------------------------------------------
MaxConns == 2       \* WebSocket connections that may ever be opened
MaxPayloads == 1    \* inbound payloads and POST /messages requests of a run
MaxCalls == 2       \* POST /chats requests of a run
MaxListings == 2    \* POST /residuals requests of a run

Conns == 1..MaxConns
Posts == {100 + i : i \in 1..MaxPayloads}
Tasks == Conns \cup Posts

Rooms == {"r1", "r2"}
\* rows of the Persistence Service that the handlers look up
Users == {"u1", "u2"}
ChatParticipants == ("r1" :> {"u1", "u2"}) @@ ("r2" :> {"u1"})
Chats == DOMAIN ChatParticipants

\* inbound WebSocket texts: text that is not JSON, JSON that is not an
\* object, and objects whose senderId / content are absent ("none", the
\* None that dict.get returns), empty, or present
Payloads ==
  {[json |-> "bad", senderId |-> "none", content |-> "none"],
   [json |-> "scalar", senderId |-> "none", content |-> "none"]}
  \cup [json : {"obj"}, senderId : {"none", "", "u1", "u9"},
        content : {"none", "", "hi"}]

\* bodies of POST /messages: accepted, unknown chat, unknown sender, sender
\* outside the chat
PostBodies ==
  {[chatId |-> "r1", senderId |-> "u2", content |-> "yo"],
   [chatId |-> "r0", senderId |-> "u1", content |-> "yo"],
   [chatId |-> "r1", senderId |-> "u9", content |-> "yo"],
   [chatId |-> "r2", senderId |-> "u2", content |-> "yo"]}

\* local variables of a handler that is not dispatching anything
NoReq == [content |-> "none", senderId |-> "none"]

VARIABLES
  active_connections, \* manager.active_connections: room -> list of sockets
  pc,          \* where each task is suspended
  room,        \* room_id path parameter / message.chatId of each task
  closed,      \* the client side of the socket is gone
  cur,         \* id of the payload a task is processing (0: none)
  req,         \* content and sender_id of the create call a task is awaiting
  idx,         \* position of the list iterator of a task's broadcast loop
  tgt,         \* socket whose send_text a broadcasting task is awaiting
  bStart,      \* history: member list when the task's running broadcast began
  failed,      \* history: sockets whose send raised in the task's last broadcast
  log,         \* history: per socket, the send_text calls made on it
  msgs,        \* the message table: id -> created message
  rejected,    \* history: ids whose db.message.create raised
  origin,      \* history: id -> the task that received the payload
  shape,       \* history: id -> what kind of text the payload was
  broadcasts,  \* history: the calls manager.broadcast(room, message id)
  nextId,      \* next payload id
  status,      \* HTTP status of each POST /messages request (0: none yet)
  raised,      \* exception raised by the last direct manager call
  lastCall,    \* the last direct manager call
  advice,      \* the /predict request or advisory call being served
  chats,       \* the chat table: list of the participant sets of its rows
  chatCalls,   \* the POST /chats requests: where each is, and its answer
  crop,        \* the last crop prediction request and its answer
  residuals_storage, \* the list of listings
  nextRes,     \* number of the next listing: its id and its createdAt
  deleted,        \* history: ids whose delete succeeded
  resp         \* the last request on the listings and its answer

vars == <<active_connections, pc, room, closed, cur, req, idx, tgt, bStart,
          failed, log, msgs, rejected, origin, shape, broadcasts, nextId,
          status, raised, lastCall, advice, chats, chatCalls, crop,
          residuals_storage, nextRes, deleted, resp>>

\* ids whose db.message.create returned
persisted == DOMAIN msgs

\* ---- sequences as Python lists -------------------------------------------
Range(s) == {s[i] : i \in 1..Len(s)}

\* list.index(x): position of the first occurrence
IndexOf(s, x) == CHOOSE i \in 1..Len(s) : s[i] = x /\ \A j \in 1..(i-1) : s[j] # x

\* list.pop() in the place of list.remove(x): drops the last element
ListRemove_Last(s, x) == SubSeq(s, 1, Len(s) - 1)

\* list.remove(x) for x in the list: drops the first occurrence, shifting
\* the later elements one place to the left
ListRemove(s, x) ==
  LET i == IndexOf(s, x) IN SubSeq(s, 1, i-1) \o SubSeq(s, i+1, Len(s))

\* number of entries of kind k for payload p in a socket's log
Count(s, k, p) == Cardinality({i \in 1..Len(s) : s[i].kind = k /\ s[i].id = p})

\* ---- ConnectionManager ---------------------------------------------------
\* a manager that registers a socket in every room it knows
connect_Everywhere(ac, r, ws) ==
  [q \in DOMAIN ac \cup {r} |->
     IF q \in DOMAIN ac THEN Append(ac[q], ws) ELSE <<ws>>]

\* connect, after `await websocket.accept()` returned
connect(ac, r, ws) ==
  IF r \notin DOMAIN ac THEN ac @@ (r :> <<ws>>)
  ELSE [ac EXCEPT ![r] = Append(@, ws)]

\* a disconnect that empties the room's list
disconnect_ClearsRoom(ac, r, ws) ==
  IF r \in DOMAIN ac
  THEN IF ws \in Range(ac[r])
       THEN [ac |-> [ac EXCEPT ![r] = <<>>], exc |-> "none"]
       ELSE [ac |-> ac, exc |-> "ValueError"]
  ELSE [ac |-> ac, exc |-> "none"]

\* disconnect: list.remove raises ValueError when ws is not in the list
disconnect(ac, r, ws) ==
  IF r \in DOMAIN ac
  THEN IF ws \in Range(ac[r])
       THEN [ac |-> [ac EXCEPT ![r] = ListRemove(@, ws)], exc |-> "none"]
       ELSE [ac |-> ac, exc |-> "ValueError"]
  ELSE [ac |-> ac, exc |-> "none"]

\* self.active_connections[room_id] when room_id is a key, else nothing
Members(ac, r) == IF r \in DOMAIN ac THEN ac[r] ELSE <<>>

\* ws is registered in some room
InSomeRoom(ac, ws) == \E q \in DOMAIN ac : ws \in Range(ac[q])

\* a broadcast that iterates over a copy of the member list made when it
\* began
IterList_Snapshot(t, i) ==
  IF i = 0 THEN Members(active_connections, room[t]) ELSE bStart[t]

\* the list object that the for statement of task t's broadcast reads at
\* iterator position i: the room's own list, not a copy of it
IterList(t, i) == Members(active_connections, room[t])

\* list iterator: there is a next element while the index is below len(list)
HasNext(i, s) == i < Len(s)

\* json.dumps({...}) of the created message, as sent by both message paths
BroadcastData(p, m) ==
  [kind |-> "msg", id |-> p, text |-> m.content, senderId |-> m.senderId,
   chatId |-> m.chatId]

\* json.dumps({"error": e}); id names the payload it answers
ErrorReply(p, e) ==
  [kind |-> "error", id |-> p, text |-> e, senderId |-> "", chatId |-> ""]

\* a loop without the try/except: the first failed send ends the broadcast
Swallowed_Abort(ok) == ok

\* try/except inside the loop: an exception of send_text is logged and
\* swallowed, so the loop goes on whatever the outcome of the send
Swallowed(ok) == TRUE

\* one turn of `for connection in self.active_connections[room_id]` for the
\* message m with id p, f being the sockets whose send raised so far: fetch
\* the next element and call send_text on it, or leave the loop and return
\* to the caller (the receive loop, or the HTTP response)
Iterate(t, p, m, i, f) ==
  LET s == IterList(t, i) IN
  IF HasNext(i, s)
  THEN /\ idx' = [idx EXCEPT ![t] = i + 1]
       /\ tgt' = [tgt EXCEPT ![t] = s[i + 1]]
       /\ log' = [log EXCEPT ![s[i + 1]] = Append(@, BroadcastData(p, m))]
       /\ pc' = [pc EXCEPT ![t] = "sending"]
       /\ cur' = [cur EXCEPT ![t] = p]
       /\ failed' = [failed EXCEPT ![t] = f]
       /\ bStart' = [bStart EXCEPT ![t] = IF i = 0 THEN s ELSE @]
       /\ UNCHANGED status
  ELSE /\ idx' = [idx EXCEPT ![t] = 0]
       /\ tgt' = [tgt EXCEPT ![t] = 0]
       /\ log' = log
       /\ pc' = [pc EXCEPT ![t] = IF t \in Conns THEN "receiving" ELSE "done"]
       /\ cur' = [cur EXCEPT ![t] = 0]
       /\ failed' = [failed EXCEPT ![t] = f]
       /\ bStart' = [bStart EXCEPT ![t] = <<>>]
       /\ status' = IF t \in Posts THEN [status EXCEPT ![t] = 200] ELSE status

\* db.message.create can succeed only for an existing sender and chat
CanPersist(senderId, chatId) == senderId \in Users /\ chatId \in Chats

\* a send on a socket can raise only once its client is gone
MayFail(ws) == closed[ws]

\* ---- advisory service ------------------------------------------------------
\* the keys of LANGUAGE_PROMPTS, and the languages a caller may name
Languages == {"en", "hi", "te", "ta", "mr", "bn"}
AnyLanguage == Languages \cup {"fr"}

\* per language the two prompt templates
LANGUAGE_PROMPTS ==
  [l \in Languages |->
     [name |-> l,
      healthy_prompt |-> [lang |-> l, about |-> "healthy"],
      disease_prompt |-> [lang |-> l, about |-> "disease"]]]

\* dict.get(k, default)
DictGet(d, k, default) == IF k \in DOMAIN d THEN d[k] ELSE default

\* classes the disease model can name, and its confidence rounded to four
\* places, in units of 1/10000
Diseases == {"Apple___Apple_scab", "Tomato___healthy"}
Confidences == {6999, 7000, 9876}

\* DISEASE_RECOMMENDATIONS has one key; any other class gets the default
get_static_recommendations(disease_name) ==
  IF disease_name = "Apple___Apple_scab" THEN "Apple___Apple_scab"
  ELSE "DEFAULT_RECOMMENDATION"

\* the prompt: the healthy template below 70 percent, else the disease
\* template filled with the disease name
Prompt(disease_name, confidence, language) ==
  LET lang_config == DictGet(LANGUAGE_PROMPTS, language, LANGUAGE_PROMPTS["en"])
  IN IF confidence < 7000
     THEN [template |-> lang_config.healthy_prompt, disease |-> ""]
     ELSE [template |-> lang_config.disease_prompt, disease |-> disease_name]

\* what model.generate_content can do: return text, text of whitespace
\* only, an empty text, a response without a text attribute, a response
\* whose text property raises, or raise
Outcomes == {"text", "blank", "empty", "no_text_attr", "text_raises", "raises"}

\* the two dicts of fallback messages, "unavailable" and "error"
fallback_messages(kind) == [l \in Languages |-> [kind |-> kind, lang |-> l]]

NoText == [kind |-> "none", lang |-> "none"]

\* an except clause for the errors of the API call only
Caught_ApiErrorOnly(outcome) == outcome = "raises"

\* `except Exception`: whatever the try block raised is caught
Caught(outcome) == TRUE

\* get_dynamic_recommendation once generate_content has come back: the
\* exception that leaves it ("none": it returns) and the text it returns
get_dynamic_recommendation(prompt, language, outcome) ==
  IF outcome \in {"raises", "text_raises"}
  THEN IF Caught(outcome)
       THEN [exc |-> "none",
             text |-> DictGet(fallback_messages("error"), language,
                              fallback_messages("error")["en"])]
       ELSE [exc |-> "ValueError", text |-> NoText]
  ELSE IF outcome = "text"
  THEN [exc |-> "none", text |-> [kind |-> "generated", lang |-> prompt.template.lang]]
  ELSE IF outcome = "blank"
  THEN [exc |-> "none", text |-> [kind |-> "empty_string", lang |-> "none"]]
  ELSE [exc |-> "none",
        text |-> DictGet(fallback_messages("unavailable"), language,
                         fallback_messages("unavailable")["en"])]

\* no request has been made
NoAdvice ==
  [pc |-> "idle", via |-> "none", language |-> "en", disease |-> "none",
   confidence |-> 0, outcome |-> "none", exc |-> "none", text |-> NoText,
   static |-> "none", status |-> 0]

\* ---- chats ------------------------------------------------------------------
\* ids a POST /chats body may name: the users, and one id of no user
ChatUserIds == Users \cup {"u9"}

\* a request that has not arrived
NoCall ==
  [pc |-> "idle", user1_id |-> "none", user2_id |-> "none", status |-> 0,
   chat |-> 0, created |-> FALSE]

\* the first chat among those with participant a that also has b (0: none):
\* find_many on user1_id, then the for loop over its rows
ExistingChat(tbl, a, b) ==
  LET hits == {i \in 1..Len(tbl) : a \in tbl[i] /\ b \in tbl[i]}
  IN IF hits = {} THEN 0 ELSE CHOOSE i \in hits : \A j \in hits : i <= j

\* ---- crop recommendation ----------------------------------------------------
\* outputs of predict_proba, in thousandths: one probability per crop
ProbabilityVectors ==
  {<<10, 20, 30, 40, 50, 60, 70, 80, 90, 100, 110, 340>>,
   <<300, 5, 5, 200, 5, 100, 5, 80, 100, 100, 50, 50>>,
   <<200, 700, 100>>,
   <<250, 200, 150, 100, 90, 80, 50, 30, 20, 15, 15>>}

\* values of the query parameter top_n
TopNs == -1..12

\* s[start:] of Python: a negative start counts from the end
PySliceFrom(s, start) ==
  LET from == IF start < 0 THEN (IF Len(s) + start < 0 THEN 0 ELSE Len(s) + start)
              ELSE (IF start > Len(s) THEN Len(s) ELSE start)
  IN SubSeq(s, from + 1, Len(s))

\* s[::-1]
Reverse(s) == [i \in 1..Len(s) |-> s[Len(s) + 1 - i]]

\* the index that an ascending sort of pr puts first among those in `left`;
\* equal values come in the order tb, which numpy leaves open
ArgMin(pr, left, tb) ==
  CHOOSE i \in left : \A j \in left \ {i} :
    \/ pr[i] < pr[j]
    \/ pr[i] = pr[j] /\ (IF tb = "low" THEN i < j ELSE i > j)

RECURSIVE ArgSortRest(_, _, _)
ArgSortRest(pr, left, tb) ==
  IF left = {} THEN <<>>
  ELSE LET i == ArgMin(pr, left, tb)
       IN <<i>> \o ArgSortRest(pr, left \ {i}, tb)

\* np.argsort(probabilities): the indices in ascending order of probability
argsort(pr, tb) == ArgSortRest(pr, DOMAIN pr, tb)

\* np.argsort(probabilities)[-top_n:][::-1]
TopIndices(pr, top_n, tb) == Reverse(PySliceFrom(argsort(pr, tb), 0 - top_n))

\* the result list of predict_crops: crop, probability and rank per index
predict_crops(pr, top_n, tb) ==
  LET top_indices == TopIndices(pr, top_n, tb)
  IN [r \in 1..Len(top_indices) |->
        [crop |-> top_indices[r], probability |-> pr[top_indices[r]],
         rank |-> r]]

Min2(a, b) == IF a < b THEN a ELSE b

\* no crop request yet
NoCrop ==
  [status |-> 0, live |-> FALSE, top_n |-> 3, probabilities |-> <<>>,
   predictions |-> <<>>]

\* ---- residual listings -------------------------------------------------------
\* ids a request may name: those of the listings of a run, made or not yet
ResidualIds == 1..MaxListings

\* bodies of PUT /residuals/{id}: any dict
Updates ==
  {<<>>,
   ("status" :> "sold"),
   ("status" :> "reserved"),
   ("status" :> "rotten"),
   ("title" :> "t2" @@ "owner" :> "u9"),
   ("id" :> 99 @@ "createdAt" :> 99 @@ "title" :> "t2")}

\* no request yet
NoResp == [op |-> "none", id |-> 0, code |-> 0, updates |-> <<>>]

\* the ids in the list
IdsOf(st) == {st[i].id : i \in 1..Len(st)}

\* next((r for r in residuals_storage if r["id"] == residual_id), None):
\* the place of the first listing with that id (0: None)
Find(st, id) ==
  IF id \notin IdsOf(st) THEN 0
  ELSE CHOOSE i \in 1..Len(st) : st[i].id = id /\ \A j \in 1..(i-1) : st[j].id # id

\* an update loop without the test on the key
ApplyUpdates_AnyKey(r, updates) ==
  [k \in DOMAIN r \cup DOMAIN updates |->
     IF k \in DOMAIN updates THEN updates[k] ELSE r[k]]

\* the loop of update_residual: a key is assigned when the listing has it
\* and it is neither "id" nor "createdAt"
ApplyUpdates(r, updates) ==
  [k \in DOMAIN r |->
     IF k \in DOMAIN updates /\ k # "id" /\ k # "createdAt"
     THEN updates[k] ELSE r[k]]

\* a delete that drops the head of the list
Remaining_PopFirst(st, id) == Tail(st)

\* [r for r in residuals_storage if r["id"] != residual_id]
Remaining(st, id) == LET keep(r) == r.id # id IN SelectSeq(st, keep)

Init ==
  /\ active_connections = <<>>
  /\ pc = [t \in Tasks |-> "idle"]
  /\ room = [t \in Tasks |-> "r1"]
  /\ closed = [c \in Conns |-> FALSE]
  /\ cur = [t \in Tasks |-> 0]
  /\ req = [t \in Tasks |-> NoReq]
  /\ idx = [t \in Tasks |-> 0]
  /\ tgt = [t \in Tasks |-> 0]
  /\ bStart = [t \in Tasks |-> <<>>]
  /\ failed = [t \in Tasks |-> {}]
  /\ log = [c \in Conns |-> <<>>]
  /\ msgs = <<>>
  /\ rejected = {}
  /\ origin = <<>>
  /\ shape = <<>>
  /\ broadcasts = {}
  /\ nextId = 1
  /\ status = [h \in Posts |-> 0]
  /\ raised = "none"
  /\ lastCall = [op |-> "none", room |-> "r1", ws |-> 0, member |-> FALSE]
  /\ advice = NoAdvice
  /\ chats = <<>>
  /\ chatCalls = [k \in 1..MaxCalls |-> NoCall]
  /\ crop = NoCrop
  /\ residuals_storage = <<>>
  /\ nextRes = 1
  /\ deleted = {}
  /\ resp = NoResp

\* the message table, what only direct manager calls change, what the
\* chat relay leaves alone, and the state of the chat relay
db == <<msgs, rejected, broadcasts>>
direct == <<raised, lastCall>>
store == <<residuals_storage, nextRes, deleted, resp>>
outside == <<advice, chats, chatCalls, crop, store>>
relay == <<active_connections, pc, room, closed, cur, req, idx, tgt, bStart,
           failed, log, msgs, rejected, origin, shape, broadcasts, nextId,
           status, raised, lastCall>>

\* ---- websocket_chat ------------------------------------------------------
\* a client opens /ws/chat/{r}: manager.connect.  Sockets are numbered in
\* the order in which they are accepted.
WsConnect(c, r) ==
  /\ pc[c] = "idle"
  /\ \A d \in Conns : d < c => pc[d] # "idle"
  /\ active_connections' = connect(active_connections, r, c)
  /\ pc' = [pc EXCEPT ![c] = "receiving"]
  /\ room' = [room EXCEPT ![c] = r]
  /\ UNCHANGED <<closed, cur, req, idx, tgt, bStart, failed, log, db, origin, shape,
                 nextId, status, direct, outside>>

\* the client goes away (close frame or lost transport)
ClientClose(c) ==
  /\ pc[c] \notin {"idle", "left", "crashed"}
  /\ ~closed[c]
  /\ closed' = [closed EXCEPT ![c] = TRUE]
  /\ UNCHANGED <<active_connections, pc, room, cur, req, idx, tgt, bStart,
                 failed, log, db, origin, shape, nextId, status, direct, outside>>

\* `except WebSocketDisconnect: manager.disconnect(room_id, websocket)`;
\* a ValueError of disconnect would leave the handler as any exception does
Leave(c) ==
  LET d == disconnect(active_connections, room[c], c) IN
    /\ active_connections' = d.ac
    /\ pc' = [pc EXCEPT ![c] = IF d.exc = "none" THEN "left" ELSE "crashed"]

\* receive_text raises WebSocketDisconnect: the handler leaves and ends
WsDisconnect(c) ==
  /\ pc[c] = "receiving"
  /\ closed[c]
  /\ Leave(c)
  /\ UNCHANGED <<room, closed, cur, req, idx, tgt, bStart, failed, log, db,
                 origin, shape, nextId, status, direct, outside>>

\* what an inbound text is, told from the text alone: not JSON, JSON but
\* not an object, an object without a usable senderId or content, or a
\* request
Shape(data) ==
  IF data.json = "bad" THEN "undecodable"
  ELSE IF data.json = "scalar" THEN "nonobject"
  ELSE IF data.senderId \in {"none", ""} \/ data.content \in {"none", ""}
  THEN "incomplete"
  ELSE "request"

\* not sender_id or not content
Falsy(v) == v \in {"none", ""}

\* a handler that creates the message without looking at its fields
Dispatch_NoFieldCheck(data) ==
  IF data.json = "bad" THEN [pc |-> "reply_json", error |-> "Invalid JSON format"]
  ELSE IF data.json = "scalar"
  THEN [pc |-> "reply_generic", error |-> "Error processing message"]
  ELSE [pc |-> "persisting", error |-> ""]

\* the first await that the handler reaches for an inbound text, and the
\* error it reports there: the reply of line 1021 after JSONDecodeError, of
\* line 1026 after the AttributeError of .get on a non-object, of line 997
\* for a missing field, or db.message.create
Dispatch(data) ==
  IF data.json = "bad" THEN [pc |-> "reply_json", error |-> "Invalid JSON format"]
  ELSE IF data.json = "scalar"
  THEN [pc |-> "reply_generic", error |-> "Error processing message"]
  ELSE IF Falsy(data.senderId) \/ Falsy(data.content)
  THEN [pc |-> "reply_required", error |-> "senderId and content are required"]
  ELSE [pc |-> "persisting", error |-> ""]

\* a handler that reads the next payload while the create of the previous
\* one is still awaited
Receive_Eager(c, data, budget) ==
  /\ pc[c] \in {"receiving", "persisting"}
  /\ ~closed[c]
  /\ nextId <= budget
  /\ nextId' = nextId + 1
  /\ cur' = [cur EXCEPT ![c] = nextId]
  /\ origin' = origin @@ (nextId :> c)
  /\ shape' = shape @@ (nextId :> Shape(data))
  /\ failed' = [failed EXCEPT ![c] = {}]
  /\ pc' = [pc EXCEPT ![c] = Dispatch(data).pc]
  /\ IF Dispatch(data).pc = "persisting"
     THEN /\ req' = [req EXCEPT ![c] = [content |-> data.content,
                                        senderId |-> data.senderId]]
          /\ log' = log
     ELSE /\ req' = req
          /\ log' = [log EXCEPT ![c] = Append(@, ErrorReply(nextId, Dispatch(data).error))]
  /\ UNCHANGED <<active_connections, room, closed, idx, tgt, bStart, db,
                 status, direct, outside>>

\* receive_text returns a payload, one of at most `budget` of the run; the
\* handler runs to its next await
Receive(c, data, budget) ==
  /\ pc[c] = "receiving"
  /\ ~closed[c]
  /\ nextId <= budget
  /\ nextId' = nextId + 1
  /\ cur' = [cur EXCEPT ![c] = nextId]
  /\ origin' = origin @@ (nextId :> c)
  /\ shape' = shape @@ (nextId :> Shape(data))
  /\ failed' = [failed EXCEPT ![c] = {}]
  /\ pc' = [pc EXCEPT ![c] = Dispatch(data).pc]
  /\ IF Dispatch(data).pc = "persisting"
     THEN /\ req' = [req EXCEPT ![c] = [content |-> data.content,
                                        senderId |-> data.senderId]]
          /\ log' = log
     ELSE /\ req' = req
          /\ log' = [log EXCEPT ![c] = Append(@, ErrorReply(nextId, Dispatch(data).error))]
  /\ UNCHANGED <<active_connections, room, closed, idx, tgt, bStart, db,
                 status, direct, outside>>

\* an inbound text on the socket of handler c
WsReceive(c, data) == Receive(c, data, MaxPayloads)

\* the message was created from the task's request: json.dumps, then
\* manager.broadcast up to its first send_text (lines 1010-1018, 930-937)
BroadcastCreated(t) ==
  LET m == [content |-> req[t].content, senderId |-> req[t].senderId,
            chatId |-> room[t]] IN
    /\ msgs' = msgs @@ (cur[t] :> m)
    /\ broadcasts' = broadcasts \cup {[id |-> cur[t], room |-> room[t]]}
    /\ req' = [req EXCEPT ![t] = NoReq]
    /\ Iterate(t, cur[t], m, 0, {})

\* db.message.create returned
WsPersistOk(c) ==
  /\ pc[c] = "persisting"
  /\ CanPersist(req[c].senderId, room[c])
  /\ BroadcastCreated(c)
  /\ UNCHANGED <<active_connections, room, closed, rejected, origin, shape, nextId,
                 direct, outside>>

\* `except Exception` of the inner try: the generic error reply (line 1026)
ReplyGeneric(c) ==
  /\ pc' = [pc EXCEPT ![c] = "reply_generic"]
  /\ log' = [log EXCEPT ![c] = Append(@, ErrorReply(cur[c], "Error processing message"))]

\* a handler that broadcasts although db.message.create raised
WsPersistFail_Broadcasts(c) ==
  /\ pc[c] = "persisting"
  /\ rejected' = rejected \cup {cur[c]}
  /\ req' = [req EXCEPT ![c] = NoReq]
  /\ Iterate(c, cur[c], [content |-> req[c].content,
                         senderId |-> req[c].senderId, chatId |-> room[c]], 0, {})
  /\ UNCHANGED <<active_connections, room, closed, msgs, broadcasts, origin, shape,
                 nextId, direct, outside>>

\* db.message.create raised
WsPersistFail(c) ==
  /\ pc[c] = "persisting"
  /\ rejected' = rejected \cup {cur[c]}
  /\ req' = [req EXCEPT ![c] = NoReq]
  /\ ReplyGeneric(c)
  /\ UNCHANGED <<active_connections, room, closed, cur, idx, tgt, bStart,
                 failed, msgs, broadcasts, origin, shape, nextId, status, direct, outside>>

\* a handler that gives up the connection once it has reported an error
WsReplyOk_Leaves(c) ==
  /\ pc[c] \in {"reply_required", "reply_json", "reply_generic"}
  /\ Leave(c)
  /\ cur' = [cur EXCEPT ![c] = 0]
  /\ UNCHANGED <<room, closed, req, idx, tgt, bStart, failed, log, db,
                 origin, shape, nextId, status, direct, outside>>

\* the send_text of an error reply returned: back to receive_text
WsReplyOk(c) ==
  /\ pc[c] \in {"reply_required", "reply_json", "reply_generic"}
  /\ pc' = [pc EXCEPT ![c] = "receiving"]
  /\ cur' = [cur EXCEPT ![c] = 0]
  /\ UNCHANGED <<active_connections, room, closed, req, idx, tgt, bStart,
                 failed, log, db, origin, shape, nextId, status, direct, outside>>

\* the send_text at line 997 raised inside the inner try: `except Exception`
\* catches it (WebSocketDisconnect included) and sends the generic reply
WsReplyRequiredFail(c) ==
  /\ pc[c] = "reply_required"
  /\ MayFail(c)
  /\ ReplyGeneric(c)
  /\ UNCHANGED <<active_connections, room, closed, cur, req, idx, tgt,
                 bStart, failed, db, origin, shape, nextId, status, direct, outside>>

\* the send_text of an except clause (lines 1021, 1026) raised: the
\* exception leaves the inner try; the outer try handles WebSocketDisconnect
\* only, any other exception ends the handler without manager.disconnect
WsReplyFail(c, exc) ==
  /\ pc[c] \in {"reply_json", "reply_generic"}
  /\ MayFail(c)
  /\ cur' = [cur EXCEPT ![c] = 0]
  /\ IF exc = "WebSocketDisconnect"
     THEN Leave(c)
     ELSE /\ active_connections' = active_connections
          /\ pc' = [pc EXCEPT ![c] = "crashed"]
  /\ UNCHANGED <<room, closed, req, idx, tgt, bStart, failed, log, db,
                 origin, shape, nextId, status, direct, outside>>

\* ---- ConnectionManager.broadcast -----------------------------------------
\* an exception leaving broadcast would reach the caller's handler: the
\* generic reply of websocket_chat, the HTTP 500 of send_message
Propagate(t) ==
  IF t \in Conns
  THEN /\ ReplyGeneric(t)
       /\ UNCHANGED <<cur, idx, tgt, status, failed, bStart>>
  ELSE /\ pc' = [pc EXCEPT ![t] = "done"]
       /\ status' = [status EXCEPT ![t] = 500]
       /\ UNCHANGED <<cur, idx, tgt, log, failed, bStart>>

\* the awaited send_text returned or raised; the loop goes on
SendDone(t, ok) ==
  /\ pc[t] = "sending"
  /\ ok \/ MayFail(tgt[t])
  /\ IF ok \/ Swallowed(ok)
     THEN Iterate(t, cur[t], msgs[cur[t]], idx[t],
                  IF ok THEN failed[t] ELSE failed[t] \cup {tgt[t]})
     ELSE Propagate(t)
  /\ UNCHANGED <<active_connections, room, closed, req, db, origin, shape, nextId,
                 direct, outside>>

\* ---- send_message (POST /messages) ---------------------------------------
\* what the body of a POST /messages is, told from the tables alone: the
\* chat exists, the sender exists and is one of its participants, or not
PostShape(b) ==
  IF /\ b.chatId \in DOMAIN ChatParticipants
     /\ b.senderId \in Users
     /\ b.senderId \in ChatParticipants[b.chatId]
  THEN "post_valid"
  ELSE "post_invalid"

\* a handler without the participant check
PostCheck_NoParticipant(b) ==
  IF b.chatId \notin Chats THEN 404
  ELSE IF b.senderId \notin Users THEN 404
  ELSE 0

\* the three lookups: chat, sender, participant (0: all passed)
PostCheck(b) ==
  IF b.chatId \notin Chats THEN 404
  ELSE IF b.senderId \notin Users THEN 404
  ELSE IF b.senderId \notin ChatParticipants[b.chatId] THEN 403
  ELSE 0

\* a request arrives and runs up to its HTTPException or to
\* db.message.create.  Requests are numbered in the order of arrival.
PostStart(h, b) ==
  /\ pc[h] = "idle"
  /\ \A g \in Posts : g < h => pc[g] # "idle"
  /\ nextId <= MaxPayloads
  /\ nextId' = nextId + 1
  /\ origin' = origin @@ (nextId :> h)
  /\ shape' = shape @@ (nextId :> PostShape(b))
  /\ IF PostCheck(b) # 0
     THEN /\ status' = [status EXCEPT ![h] = PostCheck(b)]
          /\ pc' = [pc EXCEPT ![h] = "done"]
          /\ UNCHANGED <<room, cur, req>>
     ELSE /\ pc' = [pc EXCEPT ![h] = "persisting"]
          /\ room' = [room EXCEPT ![h] = b.chatId]
          /\ cur' = [cur EXCEPT ![h] = nextId]
          /\ req' = [req EXCEPT ![h] = [content |-> b.content,
                                        senderId |-> b.senderId]]
          /\ UNCHANGED status
  /\ UNCHANGED <<active_connections, closed, idx, tgt, bStart, failed, log,
                 db, direct, outside>>

\* db.message.create returned
PostPersistOk(h) ==
  /\ pc[h] = "persisting"
  /\ CanPersist(req[h].senderId, room[h])
  /\ BroadcastCreated(h)
  /\ UNCHANGED <<active_connections, room, closed, rejected, origin, shape, nextId,
                 direct, outside>>

\* db.message.create raised: except Exception -> HTTP 500
PostPersistFail(h) ==
  /\ pc[h] = "persisting"
  /\ rejected' = rejected \cup {cur[h]}
  /\ req' = [req EXCEPT ![h] = NoReq]
  /\ pc' = [pc EXCEPT ![h] = "done"]
  /\ status' = [status EXCEPT ![h] = 500]
  /\ cur' = [cur EXCEPT ![h] = 0]
  /\ UNCHANGED <<active_connections, room, closed, idx, tgt, bStart, failed,
                 log, msgs, broadcasts, origin, shape, nextId, direct, outside>>

Next ==
  \/ \E c \in Conns, r \in Rooms : WsConnect(c, r)
  \/ \E c \in Conns : ClientClose(c)
  \/ \E c \in Conns : WsDisconnect(c)
  \/ \E c \in Conns, data \in Payloads : WsReceive(c, data)
  \/ \E c \in Conns : WsPersistOk(c)
  \/ \E c \in Conns : WsPersistFail(c)
  \/ \E c \in Conns : WsReplyOk(c)
  \/ \E c \in Conns : WsReplyRequiredFail(c)
  \/ \E c \in Conns, exc \in {"WebSocketDisconnect", "other"} : WsReplyFail(c, exc)
  \/ \E t \in Tasks, ok \in BOOLEAN : SendDone(t, ok)
  \/ \E h \in Posts, b \in PostBodies : PostStart(h, b)
  \/ \E h \in Posts : PostPersistOk(h)
  \/ \E h \in Posts : PostPersistFail(h)

Spec == Init /\ [][Next]_vars

\* ---- the manager driven directly -----------------------------------------
\* connect / disconnect called on the manager with any room and socket, a
\* socket being registered in at most one room at a time
MgrConnect(r, ws) ==
  /\ ~InSomeRoom(active_connections, ws)
  /\ active_connections' = connect(active_connections, r, ws)
  /\ raised' = "none"
  /\ lastCall' = [op |-> "connect", room |-> r, ws |-> ws, member |-> FALSE]
  /\ UNCHANGED <<pc, room, closed, cur, req, idx, tgt, bStart, failed, log,
                 db, origin, shape, nextId, status, outside>>

MgrDisconnect(r, ws) ==
  /\ active_connections' = disconnect(active_connections, r, ws).ac
  /\ raised' = disconnect(active_connections, r, ws).exc
  /\ lastCall' = [op |-> "disconnect", room |-> r, ws |-> ws,
                  member |-> ws \in Range(Members(active_connections, r))]
  /\ UNCHANGED <<pc, room, closed, cur, req, idx, tgt, bStart, failed, log,
                 db, origin, shape, nextId, status, outside>>

NextManager ==
  \/ \E r \in Rooms, ws \in Conns : MgrConnect(r, ws)
  \/ \E r \in Rooms, ws \in Conns : MgrDisconnect(r, ws)

SpecManager == Init /\ [][NextManager]_vars

\* ---- several payloads in one room ------------------------------------------
\* Runs with one payload more than those of Spec, of clients that stay: all
\* sockets join room r1 and send requests or undecodable text.
SeqBudget == MaxPayloads + 1

SeqPayloads ==
  {[json |-> "obj", senderId |-> "u1", content |-> "hi"],
   [json |-> "bad", senderId |-> "none", content |-> "none"]}

SeqReceive(c, data) == Receive(c, data, SeqBudget)

NextSeq ==
  \/ \E c \in Conns : WsConnect(c, "r1")
  \/ \E c \in Conns, data \in SeqPayloads : SeqReceive(c, data)
  \/ \E c \in Conns : WsPersistOk(c)
  \/ \E c \in Conns : WsReplyOk(c)
  \/ \E c \in Conns : SendDone(c, TRUE)

SpecSeq == Init /\ [][NextSeq]_vars

\* ---- /predict --------------------------------------------------------------
\* what an upload can be
Files == {"not_image", "too_large", "invalid_image", "image"}

\* the checks of predict_endpoint up to the advisory call: the status it
\* ends with (0: it goes on to get_dynamic_recommendation)
PredictCheck(file, language, loaded) ==
  IF file = "not_image" THEN 400
  ELSE IF language \notin DOMAIN LANGUAGE_PROMPTS THEN 400
  ELSE IF file = "too_large" THEN 400
  ELSE IF file = "invalid_image" THEN 400
  ELSE IF ~loaded THEN 500
  ELSE 0

\* POST /predict up to its first await on the generative model
PredictRequest(file, language, loaded, disease, confidence) ==
  /\ advice.pc \in {"idle", "done"}
  /\ advice' =
       IF PredictCheck(file, language, loaded) # 0
       THEN [NoAdvice EXCEPT !.pc = "done", !.via = "predict",
                             !.language = language,
                             !.status = PredictCheck(file, language, loaded)]
       ELSE [NoAdvice EXCEPT !.pc = "generating", !.via = "predict",
                             !.language = language, !.disease = disease,
                             !.confidence = confidence,
                             !.static = get_static_recommendations(disease)]
  /\ UNCHANGED <<relay, chats, chatCalls, crop, store>>

\* get_dynamic_recommendation called on its own
AdviceCall(disease, confidence, language) ==
  /\ advice.pc \in {"idle", "done"}
  /\ advice' = [NoAdvice EXCEPT !.pc = "generating", !.via = "call",
                                !.language = language, !.disease = disease,
                                !.confidence = confidence]
  /\ UNCHANGED <<relay, chats, chatCalls, crop, store>>

\* run_in_executor came back: get_dynamic_recommendation returns or raises,
\* and predict_endpoint answers
Generated(outcome) ==
  LET r == get_dynamic_recommendation(
             Prompt(advice.disease, advice.confidence, advice.language),
             advice.language, outcome)
  IN /\ advice.pc = "generating"
     /\ advice' = [advice EXCEPT
          !.pc = "done", !.outcome = outcome, !.exc = r.exc, !.text = r.text,
          !.status = IF advice.via # "predict" THEN 0
                     ELSE IF r.exc = "none" THEN 200 ELSE 500]
     /\ UNCHANGED <<relay, chats, chatCalls, crop, store>>

NextAdvice ==
  \/ \E file \in Files, language \in AnyLanguage, loaded \in BOOLEAN,
        disease \in Diseases, confidence \in Confidences :
       PredictRequest(file, language, loaded, disease, confidence)
  \/ \E disease \in Diseases, confidence \in Confidences,
        language \in AnyLanguage : AdviceCall(disease, confidence, language)
  \/ \E outcome \in Outcomes : Generated(outcome)

SpecAdvice == Init /\ [][NextAdvice]_vars

\* ---- create_chat ------------------------------------------------------------
\* POST /chats arrives; the two user lookups return.  Requests are numbered
\* in the order of arrival.
CreateChatStart(k, a, b) ==
  /\ chatCalls[k].pc = "idle"
  /\ \A j \in 1..(k-1) : chatCalls[j].pc # "idle"
  /\ chatCalls' = [chatCalls EXCEPT ![k] =
       IF a \notin Users \/ b \notin Users
       THEN [NoCall EXCEPT !.pc = "done", !.user1_id = a, !.user2_id = b,
                           !.status = 404]
       ELSE [NoCall EXCEPT !.pc = "finding", !.user1_id = a, !.user2_id = b]]
  /\ UNCHANGED <<relay, advice, chats, crop, store>>

\* db.chat.find_many returned the rows of this moment: the handler answers
\* with the first chat that has both users, or calls db.chat.create
CreateChatFound(k) ==
  LET e == ExistingChat(chats, chatCalls[k].user1_id, chatCalls[k].user2_id)
  IN /\ chatCalls[k].pc = "finding"
     /\ chatCalls' = [chatCalls EXCEPT ![k] =
          IF e # 0 THEN [@ EXCEPT !.pc = "done", !.status = 200, !.chat = e]
          ELSE [@ EXCEPT !.pc = "creating"]]
     /\ UNCHANGED <<relay, advice, chats, crop, store>>

\* db.chat.create returned the new row
CreateChatCreated(k) ==
  /\ chatCalls[k].pc = "creating"
  /\ chats' = Append(chats, {chatCalls[k].user1_id, chatCalls[k].user2_id})
  /\ chatCalls' = [chatCalls EXCEPT ![k] =
       [@ EXCEPT !.pc = "done", !.status = 200, !.chat = Len(chats) + 1,
                 !.created = TRUE]]
  /\ UNCHANGED <<relay, advice, crop, store>>

\* db.chat.create raised: except Exception -> HTTP 500
CreateChatFailed(k) ==
  /\ chatCalls[k].pc = "creating"
  /\ chatCalls' = [chatCalls EXCEPT ![k] = [@ EXCEPT !.pc = "done", !.status = 500]]
  /\ UNCHANGED <<relay, advice, chats, crop, store>>

NextChats ==
  \/ \E k \in 1..MaxCalls, a, b \in ChatUserIds : CreateChatStart(k, a, b)
  \/ \E k \in 1..MaxCalls : CreateChatFound(k)
  \/ \E k \in 1..MaxCalls : CreateChatCreated(k)
  \/ \E k \in 1..MaxCalls : CreateChatFailed(k)

SpecChats == Init /\ [][NextChats]_vars

\* ---- /crop/predict and /crop/live-predict -----------------------------------
\* one request, from its arrival to its answer (the handlers have no
\* await): 500 without a model; the live endpoint fetches weather data and
\* turns every exception into 500; predict_crops answers 400 when building
\* or scaling the features raises; else the predictions for min(top_n, 10)
CropPredict(live, top_n, pr, tb, loaded, fetched, scaled) ==
  /\ crop' =
       IF ~loaded THEN [NoCrop EXCEPT !.status = 500, !.live = live]
       ELSE IF live /\ ~fetched THEN [NoCrop EXCEPT !.status = 500, !.live = live]
       ELSE IF ~scaled
       THEN [NoCrop EXCEPT !.status = IF live THEN 500 ELSE 400, !.live = live]
       ELSE [status |-> 200, live |-> live, top_n |-> top_n,
             probabilities |-> pr,
             predictions |-> predict_crops(pr, Min2(top_n, 10), tb)]
  /\ UNCHANGED <<relay, advice, chats, chatCalls, store>>

NextCrops ==
  \E live \in BOOLEAN, top_n \in TopNs, pr \in ProbabilityVectors,
     tb \in {"low", "high"}, loaded \in BOOLEAN, fetched \in BOOLEAN,
     scaled \in BOOLEAN :
    CropPredict(live, top_n, pr, tb, loaded, fetched, scaled)

SpecCrops == Init /\ [][NextCrops]_vars

\* ---- /residuals --------------------------------------------------------------
\* POST /residuals: a listing with a new id, createdAt of now and status
\* "available" is appended
create_residual(title) ==
  /\ nextRes <= MaxListings
  /\ residuals_storage' = Append(residuals_storage,
       [id |-> nextRes, createdAt |-> nextRes, status |-> "available",
        title |-> title])
  /\ nextRes' = nextRes + 1
  /\ resp' = [op |-> "create", id |-> nextRes, code |-> 200, updates |-> <<>>]
  /\ UNCHANGED <<relay, advice, chats, chatCalls, crop, deleted>>

\* GET /residuals/{id}
get_residual(id) ==
  /\ resp' = [op |-> "get", id |-> id, updates |-> <<>>,
              code |-> IF Find(residuals_storage, id) = 0 THEN 404 ELSE 200]
  /\ UNCHANGED <<relay, advice, chats, chatCalls, crop, residuals_storage,
                 nextRes, deleted>>

\* PUT /residuals/{id}
update_residual(id, updates) ==
  LET i == Find(residuals_storage, id) IN
    /\ resp' = [op |-> "update", id |-> id, updates |-> updates,
                code |-> IF i = 0 THEN 404 ELSE 200]
    /\ residuals_storage' =
         IF i = 0 THEN residuals_storage
         ELSE [residuals_storage EXCEPT ![i] = ApplyUpdates(@, updates)]
    /\ UNCHANGED <<relay, advice, chats, chatCalls, crop, nextRes, deleted>>

\* DELETE /residuals/{id}
delete_residual(id) ==
  LET i == Find(residuals_storage, id) IN
    /\ resp' = [op |-> "delete", id |-> id, updates |-> <<>>,
                code |-> IF i = 0 THEN 404 ELSE 200]
    /\ residuals_storage' =
         IF i = 0 THEN residuals_storage ELSE Remaining(residuals_storage, id)
    /\ deleted' = IF i = 0 THEN deleted ELSE deleted \cup {id}
    /\ UNCHANGED <<relay, advice, chats, chatCalls, crop, nextRes>>

NextResiduals ==
  \/ \E title \in {"t1"} : create_residual(title)
  \/ \E id \in ResidualIds : get_residual(id)
  \/ \E id \in ResidualIds, updates \in Updates : update_residual(id, updates)
  \/ \E id \in ResidualIds : delete_residual(id)

SpecResiduals == Init /\ [][NextResiduals]_vars

\* ---- properties -----------------------------------------------------------
\* the entries of kind "msg" for payload p in all logs
Attempts(lg, p) == {x \in Conns : Count(lg[x], "msg", p) >= 1}

\* task t leaves the loop of broadcast in this step
Finishes(t) == pc[t] = "sending" /\ pc'[t] # "sending"

\* this step calls send_text with a broadcast message on socket x
AttemptOn(x) ==
  /\ Len(log'[x]) > Len(log[x])
  /\ log'[x][Len(log'[x])].kind = "msg"

\* C1: a message is broadcast if and only if it was persisted: every
\* delivery attempt is for a message whose create returned, and every
\* created message has had manager.broadcast called for its own room; a
\* message whose create raised has neither.
C1_BroadcastIffPersisted ==
  /\ \A c \in Conns : \A i \in 1..Len(log[c]) :
       log[c][i].kind = "msg" =>
         /\ log[c][i].id \in persisted
         /\ [id |-> log[c][i].id, room |-> log[c][i].chatId] \in broadcasts
  /\ \A b \in broadcasts : b.id \in persisted /\ b.room = msgs[b.id].chatId
  /\ \A p \in persisted : [id |-> p, room |-> msgs[p].chatId] \in broadcasts
  /\ \A p \in rejected : p \notin persisted /\ Attempts(log, p) = {}

C1_Witness ==
  \E p \in persisted :
    /\ Attempts(log, p) # {}
    /\ \A t \in Tasks : cur[t] # p

\* C2: when a broadcast returns, every socket that was a member of the room
\* from its start to its end has had exactly one delivery attempt, nobody
\* has had two, and only sockets that were members at some point have had
\* one; with an unchanged member list of N sockets that is N attempts.
C2_OnePerMember ==
  [][\A t \in Tasks : Finishes(t) =>
       LET p == cur[t]
           atStart == Range(bStart[t])
           atEnd == Range(Members(active_connections', room[t]))
       IN /\ (atStart \cap atEnd) \subseteq Attempts(log', p)
          /\ Attempts(log', p) \subseteq (atStart \cup atEnd)
          /\ \A x \in Conns : Count(log'[x], "msg", p) <= 1
          /\ origin[p] \in Conns => origin[p] \in Attempts(log', p)]_vars

\* C3: if some socket left the room while a broadcast over it was under
\* way, every other socket that stayed a member throughout still has exactly
\* one delivery attempt when the broadcast returns.
C3_LeaveKeepsOthers ==
  [][\A t \in Tasks : Finishes(t) =>
       LET stayed == Range(bStart[t]) \cap Range(Members(active_connections', room[t]))
           gone == Range(bStart[t]) \ Range(Members(active_connections', room[t]))
       IN gone # {} => \A y \in stayed : Count(log'[y], "msg", cur[t]) = 1]_vars

\* C4: a removal during a broadcast raises nothing in the broadcasting task
\* (it stays in the loop or returns normally), and every delivery attempt is
\* made on a socket that is in the room's list at that moment, so a socket
\* removed before its turn gets none.
C4_RemovedGetsNothing ==
  [][/\ \A x \in Conns : AttemptOn(x) =>
          x \in Range(Members(active_connections, log'[x][Len(log'[x])].chatId))
     /\ \A t \in Tasks : pc[t] = "sending" =>
          pc'[t] \in {"sending", "receiving", "done"}]_vars

C4_Witness ==
  \E t \in Tasks, x \in Conns :
    /\ pc[t] = "sending"
    /\ x \in Range(bStart[t])
    /\ x \notin Range(Members(active_connections, room[t]))
    /\ pc[x] = "left"
    /\ Count(log[x], "msg", cur[t]) = 0

\* C5: while a broadcast is between two of its delivery attempts, no step
\* changes the member list of the room it iterates.
C5_Serialized ==
  [][\A t \in Tasks :
       (pc[t] = "sending" /\ HasNext(idx[t], Members(active_connections, room[t])))
       => Members(active_connections', room[t]) = Members(active_connections, room[t])]_vars

C7_FailedSendLeaves ==
  [][\A t \in Tasks : Finishes(t) =>
       \A x \in failed'[t] :
         x \notin Range(Members(active_connections', room[t]))]_vars

\* C8: disconnect for a socket that is not in the room's list raises nothing
\* and leaves the mapping unchanged, whether the room is a key or not.
C8_LeaveIdempotent ==
  [][(lastCall'.op = "disconnect" /\ ~lastCall'.member) =>
       (raised' = "none" /\ active_connections' = active_connections)]_vars

\* C9: a socket whose handler has ended is in no room's member list, and no
\* broadcast makes a delivery attempt on it afterwards.
C9_EndedIsLeft ==
  /\ [](\A c \in Conns : pc[c] \in {"left", "crashed"} =>
          ~InSomeRoom(active_connections, c))
  /\ [][\A x \in Conns : AttemptOn(x) => pc[x] \notin {"left", "crashed"}]_vars

\* C10: a message whose create raised on the WebSocket path has one error
\* reply, on the socket it came from, and no delivery attempt; the handler
\* reports it while staying in its room, and with the client still there it
\* goes from that reply back to receive_text, still in the room.
C10_PersistFailure ==
  /\ [](\A p \in rejected :
          /\ Attempts(log, p) = {}
          /\ \A x \in Conns : Count(log[x], "error", p) =
                                IF x = origin[p] THEN 1 ELSE 0)
  /\ [][\A c \in Conns :
          /\ (pc[c] = "persisting" /\ cur[c] \in rejected') =>
               /\ pc'[c] = "reply_generic"
               /\ c \in Range(Members(active_connections', room[c]))
          /\ (pc[c] = "reply_generic" /\ cur[c] \in rejected
              /\ pc'[c] # pc[c] /\ ~closed[c]) =>
               /\ pc'[c] = "receiving"
               /\ c \in Range(Members(active_connections', room[c]))]_vars

C10_Witness ==
  \E p \in rejected :
    /\ origin[p] \in Conns
    /\ pc[origin[p]] = "receiving" /\ cur[origin[p]] = 0
    /\ origin[p] \in Range(Members(active_connections, room[origin[p]]))
    /\ Count(log[origin[p]], "error", p) = 1

\* the error replies with text e for payload p in a log
RepliesWith(lg, p, e) ==
  Cardinality({i \in 1..Len(lg) : lg[i] = ErrorReply(p, e)})

\* C11: a payload that decodes to an object without a usable senderId or
\* content has exactly one reply {"error": "senderId and content are
\* required"}, on the socket it came from; no create is called for it, no
\* broadcast is started, no other socket has anything for it; and while the
\* sender's client is there, that reply is the only thing sent for it.
C11_MissingField ==
  \A p \in DOMAIN shape : shape[p] = "incomplete" =>
    /\ RepliesWith(log[origin[p]], p, "senderId and content are required") = 1
    /\ p \notin persisted /\ p \notin rejected
    /\ \A b \in broadcasts : b.id # p
    /\ Attempts(log, p) = {}
    /\ \A x \in Conns \ {origin[p]} : Count(log[x], "error", p) = 0
    /\ ~closed[origin[p]] => Count(log[origin[p]], "error", p) = 1

C11_Witness ==
  \E p \in DOMAIN shape :
    /\ shape[p] = "incomplete"
    /\ pc[origin[p]] = "receiving" /\ cur[origin[p]] = 0
    /\ Count(log[origin[p]], "error", p) = 1
    /\ \E x \in Conns \ {origin[p]} :
         x \in Range(Members(active_connections, room[origin[p]]))

\* the states of a handler awaiting the send_text of an error reply
Replying == {"reply_required", "reply_json", "reply_generic"}

\* C12: malformed input is not fatal: a text that does not decode, decodes
\* to something other than an object, or lacks a field gets an error reply
\* on its own socket, exactly one while the client is there; the handler
\* awaits that reply while still registered in its room, and with the client
\* there it goes from the reply back to receive_text, still in the room.
C12_MalformedNotFatal ==
  /\ [](\A p \in DOMAIN shape :
          shape[p] \in {"undecodable", "nonobject", "incomplete"} =>
            LET c == origin[p] IN
              /\ Count(log[c], "error", p) >= 1
              /\ \A x \in Conns \ {c} : Count(log[x], "error", p) = 0
              /\ cur[c] = p =>
                   /\ pc[c] \in Replying
                   /\ c \in Range(Members(active_connections, room[c]))
              /\ ~closed[c] =>
                   /\ Count(log[c], "error", p) = 1
                   /\ pc[c] \notin {"left", "crashed"}
                   /\ c \in Range(Members(active_connections, room[c])))
  /\ [][\A c \in Conns :
          (/\ pc[c] \in Replying
           /\ cur[c] \in DOMAIN shape
           /\ shape[cur[c]] # "request"
           /\ pc'[c] # pc[c]
           /\ ~closed[c]) =>
             /\ pc'[c] = "receiving"
             /\ c \in Range(Members(active_connections', room[c]))]_vars

C12_Witness ==
  \E p \in DOMAIN shape :
    /\ shape[p] = "nonobject"
    /\ pc[origin[p]] = "receiving"
    /\ origin[p] \in Range(Members(active_connections, room[origin[p]]))
    /\ RepliesWith(log[origin[p]], p, "Error processing message") = 1
    /\ Count(log[origin[p]], "error", p) = 1

\* the sockets whose handler joined room r, and those whose handler left it
Joined(r) == {c \in Conns : pc[c] # "idle" /\ room[c] = r}
Left(r) == {c \in Conns : pc[c] = "left" /\ room[c] = r}

\* C13: whatever the order in which the joins and leaves of the handlers
\* ran, a room's member list holds exactly the sockets that joined it and
\* have not left it.
C13_JoinedMinusLeft ==
  \A r \in Rooms :
    Range(Members(active_connections, r)) = Joined(r) \ Left(r)

C13_Witness ==
  \E r \in Rooms : \E c \in Left(r) : \E d \in Joined(r) \ Left(r) :
    c < d /\ Members(active_connections, r) = <<d>>

\* the places (room, index) at which socket c is registered
Places(ac, c) ==
  {rp \in (DOMAIN ac) \X (1..MaxConns) :
     rp[2] <= Len(ac[rp[1]]) /\ ac[rp[1]][rp[2]] = c}

\* C14: a socket is registered in at most one room's list, and at most once
\* in that list.
C14_AtMostOnePlace ==
  /\ \A r \in DOMAIN active_connections : Len(active_connections[r]) <= MaxConns
  /\ \A c \in Conns : Cardinality(Places(active_connections, c)) <= 1

C14_Witness ==
  /\ DOMAIN active_connections = Rooms
  /\ \E c, d \in Conns :
       /\ room[c] # room[d]
       /\ Places(active_connections, c) = {<<room[c], 1>>}
       /\ Places(active_connections, d) = {<<room[d], 1>>}

\* C15: a recipient's failed send stays inside broadcast: a created message
\* never has an error reply, on its sender's socket or any other, and a
\* handler that is in the loop of broadcast stays registered in its room
\* and goes on with the loop or back to receive_text, whichever sends
\* raised.
C15_FailureContained ==
  /\ [](\A p \in persisted : \A x \in Conns : Count(log[x], "error", p) = 0)
  /\ [][\A t \in Conns : pc[t] = "sending" =>
          /\ pc'[t] \in {"sending", "receiving"}
          /\ t \in Range(Members(active_connections', room[t]))]_vars

C15_Witness ==
  \E a \in Conns : \E b \in failed[a] \ {a} :
    /\ pc[a] = "receiving" /\ ~closed[a]
    /\ a \in Range(Members(active_connections, room[a]))
    /\ \E p \in persisted :
         /\ origin[p] = a
         /\ b \in Attempts(log, p)
         /\ Count(log[a], "error", p) = 0

\* list s without the socket c
Without(s, c) == LET keep(x) == x # c IN SelectSeq(s, keep)

\* C18: the step in which a handler leaves takes its own socket out of its
\* room's list and nothing else: the other members of the room keep their
\* places, the lists of the other rooms are as they were, and every other
\* handler is where it was.
C18_LeaveFrame ==
  [][\A c \in Conns : (pc[c] # "left" /\ pc'[c] = "left") =>
       /\ c \in Range(Members(active_connections, room[c]))
       /\ DOMAIN active_connections' = DOMAIN active_connections
       /\ active_connections'[room[c]] =
            Without(active_connections[room[c]], c)
       /\ \A r \in DOMAIN active_connections \ {room[c]} :
            active_connections'[r] = active_connections[r]
       /\ \A d \in Tasks \ {c} : pc'[d] = pc[d]]_vars

C18_Witness ==
  \E c, d \in Conns :
    /\ c < d /\ room[c] = room[d]
    /\ pc[c] = "left"
    /\ pc[d] \in {"receiving", "persisting", "sending"}
    /\ Members(active_connections, room[d]) = <<d>>

\* the handler of its socket is through with payload p: the message was
\* created and its broadcast has returned, or its error reply was sent
Settled(p) ==
  /\ cur[origin[p]] # p
  /\ \/ p \in persisted
     \/ Count(log[origin[p]], "error", p) >= 1

\* C16: a handler takes the payloads of its socket one after the other: of
\* two payloads of one socket the earlier one is settled, and a handler
\* reads a payload only from receive_text, with nothing of its own in
\* progress; so the messages of a socket are created in the order of their
\* arrival.
C16_OneAtATime ==
  /\ [](\A p, q \in DOMAIN origin :
          (origin[p] = origin[q] /\ p < q) => Settled(p))
  /\ [](\A p \in DOMAIN origin : Settled(p) \/ cur[origin[p]] = p)
  /\ [][\A c \in Conns : (cur'[c] # cur[c] /\ cur'[c] # 0) =>
          pc[c] = "receiving" /\ cur[c] = 0]_vars

C16_Witness ==
  \E p, q \in persisted :
    /\ p < q /\ origin[p] = origin[q]
    /\ Settled(q)
    /\ \E x \in Conns \ {origin[p]} : Count(log[x], "msg", q) = 1

\* the place of the first delivery attempt for message p in a log (0: none)
PlaceOf(lg, p) ==
  IF Count(lg, "msg", p) = 0 THEN 0
  ELSE CHOOSE i \in 1..Len(lg) :
         /\ lg[i].kind = "msg" /\ lg[i].id = p
         /\ \A j \in 1..(i-1) : ~(lg[j].kind = "msg" /\ lg[j].id = p)

\* C17: any two sockets that both have a delivery of the same two messages
\* have them in the same order.
C17_SameOrder ==
  \A p, q \in persisted : \A x, y \in Conns :
    (/\ PlaceOf(log[x], p) # 0 /\ PlaceOf(log[x], q) # 0
     /\ PlaceOf(log[y], p) # 0 /\ PlaceOf(log[y], q) # 0) =>
      (PlaceOf(log[x], p) < PlaceOf(log[x], q)
         <=> PlaceOf(log[y], p) < PlaceOf(log[y], q))

\* the number of entries equal to e in a log
Copies(lg, e) == Cardinality({i \in 1..Len(lg) : lg[i] = e})

\* C19: the payload sent for a request has the content and the senderId of
\* the request and the chatId of the handler's room; when the broadcast of
\* the request returns, every socket that was a member of the room all
\* along, the sender's included, has that payload, and no socket of another
\* room has anything for the request.
C19_SamePayloadToAll ==
  [][\A t \in Conns :
       /\ (pc[t] = "persisting" /\ pc'[t] = "sending") =>
            msgs'[cur[t]] = [content |-> req[t].content,
                             senderId |-> req[t].senderId,
                             chatId |-> room[t]]
       /\ Finishes(t) =>
            LET p == cur[t]
                payload == BroadcastData(p, msgs[p])
                members == Range(bStart[t]) \cap
                           Range(Members(active_connections', room[t]))
            IN /\ msgs[p].chatId = room[t]
               /\ \A x \in members : Copies(log'[x], payload) = 1
               /\ \A x \in Conns : \A i \in 1..Len(log'[x]) :
                    log'[x][i].id = p => log'[x][i] = payload
               /\ \A x \in Conns : room[x] # room[t] =>
                    Count(log'[x], "msg", p) = 0]_vars

\* C20: get_dynamic_recommendation never raises; when the generative call
\* raised, or its response's text raised, it returns the error fallback, and
\* when the response has no text the unavailable fallback, each in the
\* language asked for, or in English if that language has no entry; and a
\* /predict request that got as far as the advisory call answers 200 with
\* its prediction and static recommendations.
C20_AdviceFailsAlone ==
  advice.outcome # "none" =>
    LET lang == IF advice.language \in Languages THEN advice.language ELSE "en"
    IN /\ advice.exc = "none"
       /\ advice.outcome \in {"raises", "text_raises"} =>
            advice.text = [kind |-> "error", lang |-> lang]
       /\ advice.outcome \in {"empty", "no_text_attr"} =>
            advice.text = [kind |-> "unavailable", lang |-> lang]
       /\ advice.via = "predict" =>
            /\ advice.status = 200
            /\ advice.disease \in Diseases
            /\ advice.confidence \in Confidences
            /\ advice.static = get_static_recommendations(advice.disease)

C20_Witness ==
  /\ advice.pc = "done" /\ advice.via = "predict"
  /\ advice.outcome = "text_raises"
  /\ advice.language = "te"
  /\ advice.text = [kind |-> "error", lang |-> "te"]
  /\ advice.status = 200

\* C21: POST /messages creates and broadcasts only for a body whose chat
\* exists, whose sender exists and whose sender is a participant of the
\* chat: such a request never ends with 404 or 403, and every other request
\* ends with 404 or 403 at once, with no create called, no broadcast
\* started and no delivery attempt on any socket.
C21_PostChecks ==
  \A p \in DOMAIN origin : origin[p] \in Posts =>
    LET h == origin[p] IN
      /\ shape[p] = "post_invalid" =>
           /\ status[h] \in {403, 404} /\ pc[h] = "done"
           /\ p \notin persisted /\ p \notin rejected
           /\ \A b \in broadcasts : b.id # p
           /\ \A x \in Conns : \A i \in 1..Len(log[x]) : log[x][i].id # p
      /\ shape[p] = "post_valid" => status[h] \in {0, 200, 500}
      /\ p \in persisted =>
           /\ shape[p] = "post_valid"
           /\ msgs[p].chatId \in DOMAIN ChatParticipants
           /\ msgs[p].senderId \in ChatParticipants[msgs[p].chatId]

C21_Witness ==
  \E p \in DOMAIN origin :
    /\ origin[p] \in Posts
    /\ shape[p] = "post_invalid"
    /\ status[origin[p]] = 403
    /\ Members(active_connections, "r2") # <<>>
    /\ \A x \in Conns : log[x] = <<>>

\* C22: no two rows of the chat table have the same two participants, and a
\* request that finds a chat of its two users answers with a chat of those
\* users and creates nothing.
C22_OneChatPerPair ==
  /\ \A i, j \in 1..Len(chats) :
       (i # j /\ Cardinality(chats[i]) = 2) => chats[i] # chats[j]
  /\ \A k \in 1..MaxCalls :
       (chatCalls[k].status = 200 /\ ~chatCalls[k].created) =>
         {chatCalls[k].user1_id, chatCalls[k].user2_id}
           \subseteq chats[chatCalls[k].chat]

\* the k largest probabilities of pr, as a bag: those of the last k places
\* of any ascending sort
Largest(pr, k) ==
  LET top == PySliceFrom(argsort(pr, "low"), Len(pr) - k)
  IN [i \in 1..Len(top) |-> pr[top[i]]]

\* C23: an answered crop request with top_n = n >= 0 holds exactly
\* min(n, 10, number of crops) predictions, ranked 1..k, in non-increasing
\* probability, of distinct crops, whose probabilities are the k largest of
\* the model's output; for n = 0 it holds none.
C23_TopN ==
  (crop.status = 200 /\ crop.top_n >= 0) =>
    LET pr == crop.probabilities
        got == crop.predictions
        k == Min2(Min2(crop.top_n, 10), Len(pr))
    IN /\ Len(got) = k
       /\ \A r \in 1..Len(got) :
            /\ got[r].rank = r
            /\ got[r].crop \in DOMAIN pr
            /\ got[r].probability = pr[got[r].crop]
       /\ \A r, q \in 1..Len(got) :
            r < q => /\ got[r].probability >= got[q].probability
                     /\ got[r].crop # got[q].crop
       /\ \A r \in 1..Len(got) :
            got[r].probability = Reverse(Largest(pr, Len(got)))[r]

\* C24: the status of every listing in the list is "available", "sold" or
\* "reserved".
C24_StatusValues ==
  \A i \in 1..Len(residuals_storage) :
    residuals_storage[i].status \in {"available", "sold", "reserved"}

\* C25: a PUT on an id that no listing has answers 404 and leaves the list
\* as it was; a PUT on a listing answers 200, leaves every other listing
\* and the length of the list as they were, and leaves the listing with the
\* same keys, the same id and the same createdAt, every changed key being a
\* key of the body with the body's value.
C25_UpdateFrame ==
  [][resp'.op = "update" =>
       LET i == Find(residuals_storage, resp'.id) IN
         IF i = 0
         THEN resp'.code = 404 /\ residuals_storage' = residuals_storage
         ELSE /\ resp'.code = 200
              /\ Len(residuals_storage') = Len(residuals_storage)
              /\ \A j \in 1..Len(residuals_storage) :
                   j # i => residuals_storage'[j] = residuals_storage[j]
              /\ DOMAIN residuals_storage'[i] = DOMAIN residuals_storage[i]
              /\ residuals_storage'[i].id = residuals_storage[i].id
              /\ residuals_storage'[i].createdAt = residuals_storage[i].createdAt
              /\ \A k \in DOMAIN residuals_storage[i] \ {"id", "createdAt"} :
                   residuals_storage'[i][k] =
                     IF k \in DOMAIN resp'.updates THEN resp'.updates[k]
                     ELSE residuals_storage[i][k]]_vars

C25_Witness ==
  /\ resp.op = "update" /\ resp.code = 200
  /\ "id" \in DOMAIN resp.updates
  /\ Len(residuals_storage) = 2
  /\ \E i, j \in 1..2 :
       /\ residuals_storage[i].id = resp.id
       /\ residuals_storage[i].createdAt = resp.id
       /\ residuals_storage[i].title = "t2"
       /\ j # i /\ residuals_storage[j].title = "t1"

\* C26: a DELETE on an id that no listing has answers 404 and leaves the
\* list as it was; a DELETE on a listing answers 200 and takes that one
\* listing out, the others staying in their order; a deleted id stays out
\* of the list, and every later GET, PUT or DELETE of it answers 404 and
\* leaves the list as it was.
C26_DeleteExact ==
  /\ [][resp'.op = "delete" =>
          LET i == Find(residuals_storage, resp'.id) IN
            IF i = 0
            THEN resp'.code = 404 /\ residuals_storage' = residuals_storage
            ELSE /\ resp'.code = 200
                 /\ residuals_storage' =
                      SubSeq(residuals_storage, 1, i - 1) \o
                      SubSeq(residuals_storage, i + 1, Len(residuals_storage))
                 /\ resp'.id \notin IdsOf(residuals_storage')]_vars
  /\ [](deleted \cap IdsOf(residuals_storage) = {})
  /\ [][(resp'.op \in {"get", "update", "delete"} /\ resp'.id \in deleted) =>
          resp'.code = 404 /\ residuals_storage' = residuals_storage]_vars

C26_Witness ==
  /\ resp.op = "get" /\ resp.code = 404
  /\ resp.id \in deleted
  /\ resp.id < nextRes - 1
  /\ Len(residuals_storage) = 1

====
